---- MODULE Spec2Model ----
(***************************************************************************)
(* Model of camera.c: a V4L2 capture session (init, the handle_events /    *)
(* render loop of main, quit) run against a V4L2 device and an SDL display *)
(* whose calls may succeed or fail.  Every system call the program makes   *)
(* is one step; pc is the position of the single thread.                   *)
(***************************************************************************)
EXTENDS Integers, Sequences, FiniteSets

(* ---- bounds ---------------------------------------------------------- *)

\* Size of the ring, "#define NUMBUFS 16" (camera.c:20), scaled down.
NUMBUFS == 2

\* Largest width and height, requested or granted.
MaxDim == 2

\* Largest number of bytes by which the device's buffer length exceeds the
\* size of one frame of the format it granted.
MaxPad == 1

(* ---- program constants ----------------------------------------------- *)

\* sizeof(Uint16), the bytes per pixel render assumes.
BytesPerPixel == 2

EXIT_SUCCESS == 0

EXIT_FAILURE == 1

\* Exit status of a process killed by a memory fault (128 + SIGSEGV).
EXIT_FAULT == 139

\* Value of exit_code while the process runs.
Running == -1

\* open() failing, and the two kinds of descriptor it can return: 0 when the
\* process was started with descriptor 0 closed, a larger one otherwise.
FD_FAILED == -1

FD_ZERO == 0

FD_OTHER == 3

(* ---- values ---------------------------------------------------------- *)

Slots == 0 .. (NUMBUFS - 1)

Dims == 1 .. MaxDim

Res == [width : Dims, height : Dims]

ZeroRes == [width |-> 0, height |-> 0]

\* struct v4l2_buffer, the two fields the program reads back.
ZeroBuf == [index |-> 0, length |-> 0]

NoSlot == -1

\* No munmap issued for a slot yet; n counts the munmap calls issued for it.
NoCall == [addr |-> "none", len |-> 0, n |-> 0]

Caps == SUBSET {"VIDEO_CAPTURE", "STREAMING"}

FrameSize(w, h) == w * h * BytesPerPixel

\* Buffer sizes the device may allocate for the format it granted: one
\* VIDIOC_REQBUFS allocates buffers of one size, at least one frame.
DevLens(g) == { FrameSize(g.width, g.height) + p : p \in 0 .. MaxPad }

\* Row strides SDL may give a YUY2 texture of width w.
Pitches(w) == { BytesPerPixel * w, BytesPerPixel * w + 1, (BytesPerPixel + 1) * w }

VARIABLES
    pc,          \* position of the program
    args,        \* struct args: width, height (parse_args' result)
    fd,          \* s->fd
    cap,         \* s->cap.capabilities
    fmt,         \* s->fmt.fmt.pix width, height
    rb_count,    \* s->rb.count
    buf,         \* s->buf: index, length
    mem,         \* s->mem[]: "NULL", "MAP_FAILED" or "PTR"
    width,       \* s->width
    height,      \* s->height
    quit,        \* s->quit
    window,      \* s->window and s->renderer: "NULL" or "PTR"
    texture,     \* s->texture: "NULL" or "PTR"
    i,           \* the loop index of init's and quit's for loops
    init_ret,    \* what init returned: -1 while it runs, then 0 or 1
    exit_code,   \* the exit status of the process
    \* the device and the display
    dev_fmt,     \* the resolution the device granted
    dev_count,   \* the number of buffers the device granted
    dev_size,    \* the size of the buffers the device allocated
    dev_len,     \* per index: the length the device reported for it
    queued,      \* per index: successful enqueues minus successful dequeues
    streaming,   \* the device is streaming
    map_len,     \* per slot: the length of the mapping mmap created, 0 if none
    map_state,   \* per slot: "none", "mapped", "partial", "unmapped"
    tex_pitch,   \* the row stride of the texture
    \* history
    req,         \* the resolution requested on the command line
    ioctls,      \* the device requests issued so far
    queried,     \* the indices QUERYBUF was issued for
    lost,        \* the indices whose requeue in render failed
    held,        \* the index this iteration's dequeue returned and render
                 \* has not yet handed to a requeue
    copied,      \* the index render's memcpy read in this iteration
    unmap_call,  \* per slot: the arguments of the munmap issued for it
    unmaps,      \* per slot: the number of munmap calls that released it
    calls        \* the calls quit has issued, in order

vars == << pc, args, fd, cap, fmt, rb_count, buf, mem, width, height, quit,
           window, texture, i, init_ret, exit_code, dev_fmt, dev_count,
           dev_size, dev_len, queued, streaming, map_len, map_state, tex_pitch, req,
           ioctls, queried, lost, held, copied, unmap_call, unmaps, calls >>

prog == << args, fd, cap, fmt, rb_count, buf, mem, width, height, quit,
           window, texture, i, init_ret, exit_code >>

device == << dev_fmt, dev_count, dev_size, dev_len, queued, streaming, map_len,
             map_state, tex_pitch >>

history == << req, ioctls, queried, lost, held, copied, unmap_call, unmaps, calls >>

\* The state after parse_args and the memset at the top of init.
Init ==
    /\ pc = "open"
    /\ args \in Res
    /\ req = args
    /\ fd = 0
    /\ cap = {}
    /\ fmt = ZeroRes
    /\ rb_count = 0
    /\ buf = ZeroBuf
    /\ mem = [s \in Slots |-> "NULL"]
    /\ width = 0
    /\ height = 0
    /\ quit = 0
    /\ window = "NULL"
    /\ texture = "NULL"
    /\ i = 0
    /\ init_ret = -1
    /\ exit_code = Running
    /\ dev_fmt = ZeroRes
    /\ dev_count = 0
    /\ dev_size = 0
    /\ dev_len = [s \in Slots |-> 0]
    /\ queued = [s \in Slots |-> 0]
    /\ streaming = FALSE
    /\ map_len = [s \in Slots |-> 0]
    /\ map_state = [s \in Slots |-> "none"]
    /\ tex_pitch = 0
    /\ ioctls = {}
    /\ queried = {}
    /\ lost = {}
    /\ held = NoSlot
    /\ copied = NoSlot
    /\ unmap_call = [s \in Slots |-> NoCall]
    /\ unmaps = [s \in Slots |-> 0]
    /\ calls = << >>

(* ---- init (camera.c:101-240) ----------------------------------------- *)

\* A failure path that goes straight to the unmap loop, without the
\* stream-off.
init_return_0_skips_streamoff ==
    /\ init_ret' = 0
    /\ pc' = "munmap"

\* "return 0" in init: main then calls quit and exits with EXIT_FAILURE.
init_return_0 ==
    /\ init_ret' = 0
    /\ pc' = "streamoff"

\* s->fd = open(a->videodevice, O_RDWR); if ( s->fd < 0 ) return 0;
init_open ==
    /\ pc = "open"
    /\ \E r \in {FD_FAILED, FD_ZERO, FD_OTHER} :
        /\ fd' = r
        /\ IF r < 0
           THEN init_return_0
           ELSE /\ pc' = "querycap"
                /\ UNCHANGED init_ret
    /\ UNCHANGED << args, cap, fmt, rb_count, buf, mem, width, height, quit,
                    window, texture, i, exit_code >>
    /\ UNCHANGED device
    /\ UNCHANGED history

\* A capability test that leaves out the streaming bit.
init_caps_ok_capture_only(c) == "VIDEO_CAPTURE" \in c

\* The two capability tests of init.
init_caps_ok(c) == "VIDEO_CAPTURE" \in c /\ "STREAMING" \in c

\* ioctl(VIDIOC_QUERYCAP) and the two tests of the capability bits.
init_querycap ==
    /\ pc = "querycap"
    /\ ioctls' = ioctls \cup {"QUERYCAP"}
    /\ \E ok \in BOOLEAN, c \in Caps :
        IF ~ok
        THEN /\ init_return_0
             /\ UNCHANGED cap
        ELSE /\ cap' = c
             /\ IF init_caps_ok(c)
                THEN /\ pc' = "s_fmt"
                     /\ UNCHANGED init_ret
                ELSE init_return_0
    /\ UNCHANGED << args, fd, fmt, rb_count, buf, mem, width, height, quit,
                    window, texture, i, exit_code >>
    /\ UNCHANGED device
    /\ UNCHANGED << req, queried, lost, held, copied, unmap_call, unmaps, calls >>

\* ioctl(s->fd, VIDIOC_S_FMT, s->fmt): the structure is passed by value
\* where the request takes its address.  What the driver reads and writes
\* is then whatever the third argument register holds: the request fails
\* (bad address), or succeeds with the driver's answer written to a copy
\* (s->fmt keeps what was sent), or succeeds with the answer written to
\* s->fmt itself.  sent is s->fmt as filled in, g what the device granted.
init_s_fmt_readback(sent, g, aliased) == IF aliased THEN g ELSE sent

\* Lines 144-156: a->width, a->height after the comparison with s->fmt.
init_reconcile(a, f) ==
    IF f.width # a.width \/ f.height # a.height
    THEN [width |-> f.width, height |-> f.height]
    ELSE a

\* Lines 129-160: fill in s->fmt, set the format, reconcile and record.
init_s_fmt ==
    /\ pc = "s_fmt"
    /\ ioctls' = ioctls \cup {"S_FMT"}
    /\ \E ok \in BOOLEAN, g \in Res, aliased \in BOOLEAN :
        IF ~ok
        THEN /\ fmt' = [width |-> args.width, height |-> args.height]
             /\ init_return_0
             /\ UNCHANGED << args, width, height, dev_fmt >>
        ELSE /\ dev_fmt' = g
             /\ fmt' = init_s_fmt_readback(
                           [width |-> args.width, height |-> args.height],
                           g, aliased)
             /\ args' = init_reconcile(args, fmt')
             /\ width' = args'.width
             /\ height' = args'.height
             /\ pc' = "reqbufs"
             /\ UNCHANGED init_ret
    /\ UNCHANGED << fd, cap, rb_count, buf, mem, quit, window, texture, i,
                    exit_code >>
    /\ UNCHANGED << dev_count, dev_size, dev_len, queued, streaming, map_len,
                    map_state, tex_pitch >>
    /\ UNCHANGED << req, queried, lost, held, copied, unmap_call, unmaps, calls >>

\* s->rb.count = NUMBUFS; ioctl(VIDIOC_REQBUFS, &s->rb): the device
\* writes the number of buffers it granted back into s->rb.count.
init_reqbufs ==
    /\ pc = "reqbufs"
    /\ ioctls' = ioctls \cup {"REQBUFS"}
    /\ \E ok \in BOOLEAN, n \in 1 .. NUMBUFS, l \in DevLens(dev_fmt) :
        IF ~ok
        THEN /\ rb_count' = NUMBUFS
             /\ init_return_0
             /\ UNCHANGED << dev_count, dev_size, i >>
        ELSE /\ rb_count' = n
             /\ dev_count' = n
             /\ dev_size' = l
             /\ i' = 0
             /\ pc' = "querybuf"
             /\ UNCHANGED init_ret
    /\ UNCHANGED << args, fd, cap, fmt, buf, mem, width, height, quit,
                    window, texture, exit_code >>
    /\ UNCHANGED << dev_fmt, dev_len, queued, streaming, map_len, map_state,
                    tex_pitch >>
    /\ UNCHANGED << req, queried, lost, held, copied, unmap_call, unmaps, calls >>

\* The bound of init's two loops and of quit's loop: i < NUMBUFS.
ring_limit(count) == NUMBUFS

\* Map loop, first half: memset(&s->buf), index = i, ioctl(VIDIOC_QUERYBUF).
\* The device rejects an index it did not grant.
init_querybuf ==
    /\ pc = "querybuf"
    /\ ioctls' = ioctls \cup {"QUERYBUF"}
    /\ queried' = queried \cup {i}
    /\ \E ok \in BOOLEAN :
        IF ok /\ i < dev_count
        THEN /\ buf' = [index |-> i, length |-> dev_size]
             /\ dev_len' = [dev_len EXCEPT ![i] = dev_size]
             /\ pc' = "mmap"
             /\ UNCHANGED init_ret
        ELSE /\ buf' = [index |-> i, length |-> 0]
             /\ init_return_0
             /\ UNCHANGED dev_len
    /\ UNCHANGED << args, fd, cap, fmt, rb_count, mem, width, height, quit,
                    window, texture, i, exit_code >>
    /\ UNCHANGED << dev_fmt, dev_count, dev_size, queued, streaming, map_len,
                    map_state, tex_pitch >>
    /\ UNCHANGED << req, lost, held, copied, unmap_call, unmaps, calls >>

\* Map loop, second half: s->mem[i] = mmap(0, s->buf.length, ...) and the
\* test against MAP_FAILED; then i++ and the loop test.
init_mmap ==
    /\ pc = "mmap"
    /\ \E ok \in BOOLEAN :
        IF ok
        THEN /\ mem' = [mem EXCEPT ![i] = "PTR"]
             /\ map_len' = [map_len EXCEPT ![i] = buf.length]
             /\ map_state' = [map_state EXCEPT ![i] = "mapped"]
             /\ IF i + 1 < ring_limit(rb_count)
                THEN /\ i' = i + 1
                     /\ pc' = "querybuf"
                ELSE /\ i' = 0
                     /\ pc' = "qbuf"
             /\ UNCHANGED init_ret
        ELSE /\ mem' = [mem EXCEPT ![i] = "MAP_FAILED"]
             /\ init_return_0
             /\ UNCHANGED << map_len, map_state, i >>
    /\ UNCHANGED << args, fd, cap, fmt, rb_count, buf, width, height, quit,
                    window, texture, exit_code >>
    /\ UNCHANGED << dev_fmt, dev_count, dev_size, dev_len, queued, streaming,
                    tex_pitch >>
    /\ UNCHANGED history

\* A successful VIDIOC_QBUF of index j: one more enqueue of j.
Enqueue(q, j) == [q EXCEPT ![j] = IF q[j] < 2 THEN q[j] + 1 ELSE 2]

\* A successful VIDIOC_DQBUF returning index j: one more dequeue of j.
Dequeue(q, j) == [q EXCEPT ![j] = IF q[j] > -1 THEN q[j] - 1 ELSE -1]

\* Queue loop: memset(&s->buf), index = i, ioctl(VIDIOC_QBUF); on success
\* the driver fills the descriptor in, length included.
init_qbuf ==
    /\ pc = "qbuf"
    /\ ioctls' = ioctls \cup {"QBUF"}
    /\ \E ok \in BOOLEAN :
        IF ok /\ i < dev_count
        THEN /\ buf' = [index |-> i, length |-> dev_len[i]]
             /\ queued' = Enqueue(queued, i)
             /\ IF i + 1 < ring_limit(rb_count)
                THEN /\ i' = i + 1
                     /\ pc' = "qbuf"
                ELSE /\ i' = 0
                     /\ pc' = "streamon"
             /\ UNCHANGED init_ret
        ELSE /\ buf' = [index |-> i, length |-> 0]
             /\ init_return_0
             /\ UNCHANGED << queued, i >>
    /\ UNCHANGED << args, fd, cap, fmt, rb_count, mem, width, height, quit,
                    window, texture, exit_code >>
    /\ UNCHANGED << dev_fmt, dev_count, dev_size, dev_len, streaming, map_len,
                    map_state, tex_pitch >>
    /\ UNCHANGED << req, queried, lost, held, copied, unmap_call, unmaps, calls >>

\* ioctl(VIDIOC_STREAMON).
init_streamon ==
    /\ pc = "streamon"
    /\ ioctls' = ioctls \cup {"STREAMON"}
    /\ \E ok \in BOOLEAN :
        IF ok
        THEN /\ streaming' = TRUE
             /\ pc' = "sdl_init"
             /\ UNCHANGED init_ret
        ELSE /\ init_return_0
             /\ UNCHANGED streaming
    /\ UNCHANGED << args, fd, cap, fmt, rb_count, buf, mem, width, height,
                    quit, window, texture, i, exit_code >>
    /\ UNCHANGED << dev_fmt, dev_count, dev_size, dev_len, queued, map_len, map_state,
                    tex_pitch >>
    /\ UNCHANGED << req, queried, lost, held, copied, unmap_call, unmaps, calls >>

\* SDL_Init( SDL_INIT_VIDEO ).
init_sdl_init ==
    /\ pc = "sdl_init"
    /\ \E ok \in BOOLEAN :
        IF ok
        THEN /\ pc' = "sdl_window"
             /\ UNCHANGED init_ret
        ELSE init_return_0
    /\ UNCHANGED << args, fd, cap, fmt, rb_count, buf, mem, width, height,
                    quit, window, texture, i, exit_code >>
    /\ UNCHANGED device
    /\ UNCHANGED history

\* SDL_CreateWindowAndRenderer( s->width, s->height, ... ) and its test.
init_sdl_window ==
    /\ pc = "sdl_window"
    /\ \E ok \in BOOLEAN :
        IF ok
        THEN /\ window' = "PTR"
             /\ pc' = "sdl_texture"
             /\ UNCHANGED init_ret
        ELSE /\ init_return_0
             /\ UNCHANGED window
    /\ UNCHANGED << args, fd, cap, fmt, rb_count, buf, mem, width, height,
                    quit, texture, i, exit_code >>
    /\ UNCHANGED device
    /\ UNCHANGED history

\* What init returns once SDL_CreateTexture has answered t: the result of
\* SDL_CreateTexture is stored and not tested.
init_after_texture(t) == 1

\* s->texture = SDL_CreateTexture( ..., s->width, s->height ); return 1;
init_sdl_texture ==
    /\ pc = "sdl_texture"
    /\ \E t \in {"NULL", "PTR"}, p \in Pitches(width) :
        /\ texture' = t
        /\ tex_pitch' = IF t = "PTR" THEN p ELSE 0
        /\ init_ret' = init_after_texture(t)
        /\ pc' = IF init_ret' = 1 THEN "loop" ELSE "streamoff"
    /\ UNCHANGED << args, fd, cap, fmt, rb_count, buf, mem, width, height,
                    quit, window, i, exit_code >>
    /\ UNCHANGED << dev_fmt, dev_count, dev_size, dev_len, queued, streaming, map_len,
                    map_state >>
    /\ UNCHANGED history

(* ---- main loop, handle_events, render (camera.c:242-295, 334-338) ---- *)

\* while ( state.quit == 0 )
main_loop_continues(q) == q = 0

\* The loop test of main: another iteration, or quit() and EXIT_SUCCESS.
main_loop ==
    /\ pc = "loop"
    /\ pc' = IF main_loop_continues(quit) THEN "events" ELSE "streamoff"
    /\ UNCHANGED prog
    /\ UNCHANGED device
    /\ UNCHANGED history

\* handle_events: drains the pending events; a quit event or the q key
\* among them sets s->quit.
handle_events ==
    /\ pc = "events"
    /\ \E quit_event \in BOOLEAN :
        quit' = IF quit_event THEN 1 ELSE quit
    /\ pc' = "dqbuf"
    /\ UNCHANGED << args, fd, cap, fmt, rb_count, buf, mem, width, height,
                    window, texture, i, init_ret, exit_code >>
    /\ UNCHANGED device
    /\ UNCHANGED history

\* A render whose failed dequeue does not return: it goes on to the copy
\* and the requeue with the zeroed descriptor.
render_after_dqbuf_no_return(ok) == "lock"

\* A render for which a failed dequeue ends the session.
render_after_dqbuf_fatal(ok) == IF ok THEN "lock" ELSE "streamoff"

\* Where render goes after VIDIOC_DQBUF: on to the texture, or "return".
render_after_dqbuf(ok) == IF ok THEN "lock" ELSE "loop"

\* render, lines 263-270: memset(&s->buf), ioctl(VIDIOC_DQBUF).  The device
\* hands back a buffer it holds, and fails when it holds none.
render_dqbuf ==
    /\ pc = "dqbuf"
    /\ ioctls' = ioctls \cup {"DQBUF"}
    /\ copied' = NoSlot
    /\ \/ \E j \in { s \in Slots : queued[s] > 0 } :
            /\ buf' = [index |-> j, length |-> dev_len[j]]
            /\ queued' = Dequeue(queued, j)
            /\ held' = j
            /\ pc' = render_after_dqbuf(TRUE)
       \/ /\ buf' = ZeroBuf
          /\ held' = NoSlot
          /\ UNCHANGED queued
          /\ pc' = render_after_dqbuf(FALSE)
    /\ UNCHANGED << args, fd, cap, fmt, rb_count, mem, width, height, quit,
                    window, texture, i, init_ret, exit_code >>
    /\ UNCHANGED << dev_fmt, dev_count, dev_size, dev_len, streaming, map_len,
                    map_state, tex_pitch >>
    /\ UNCHANGED << req, queried, lost, unmap_call, unmaps, calls >>

\* A render that returns on a stride mismatch without the requeue.
render_after_copy_drops(matched) == IF matched THEN "requeue" ELSE "loop"

\* Where render goes after the stride test: the requeue follows the copy
\* and the reported mismatch alike.
render_after_copy(matched) == "requeue"

\* if ( pitch/s->width != sizeof(Uint16) ) mismatch, else copy.
render_pitch_matches(pitch, w) == (pitch \div w) = BytesPerPixel

\* A memcpy that always reads the first slot: s->mem[0].
render_copy_source_first(b) == 0

\* The slot whose memory the memcpy reads: s->mem[s->buf.index].
render_copy_source(b) == b.index

\* The number of bytes the memcpy reads.
render_copy_bytes(w, h) == w * h * BytesPerPixel

\* The process dies of a memory fault.
Fault ==
    /\ pc' = "crashed"
    /\ exit_code' = EXIT_FAULT

\* render, lines 272-284: SDL_LockTexture, the stride test, the memcpy,
\* SDL_UnlockTexture.  With a valid texture the lock yields the texture's
\* stride.  With s->texture NULL the lock fails and leaves pixels and pitch
\* unset: the stride tested is then any value and the memcpy writes through
\* a wild pointer.  A memcpy that writes through a wild pointer, or reads
\* past the end of the mapping, may fault or may run through.
render_lock_copy ==
    /\ pc = "lock"
    /\ \E pitch \in (IF texture = "PTR" THEN {tex_pitch} ELSE Pitches(width)),
          faults \in BOOLEAN :
        IF render_pitch_matches(pitch, width)
        THEN /\ copied' = render_copy_source(buf)
             /\ IF faults /\ ( \/ texture = "NULL"
                               \/ render_copy_bytes(width, height)
                                    > map_len[render_copy_source(buf)] )
                THEN Fault
                ELSE /\ pc' = render_after_copy(TRUE)
                     /\ UNCHANGED exit_code
        ELSE /\ pc' = render_after_copy(FALSE)
             /\ UNCHANGED << copied, exit_code >>
    /\ UNCHANGED << args, fd, cap, fmt, rb_count, buf, mem, width, height,
                    quit, window, texture, i, init_ret >>
    /\ UNCHANGED device
    /\ UNCHANGED << req, ioctls, queried, lost, held, unmap_call, unmaps,
                    calls >>

\* The index render hands back: ioctl( s->fd, VIDIOC_QBUF, &s->buf ).
render_requeue_index(b) == b.index

\* render, lines 286-294: queue the buffer again, whatever the copy did,
\* then clear, copy and present the renderer.
render_requeue ==
    /\ pc = "requeue"
    /\ ioctls' = ioctls \cup {"QBUF"}
    /\ \E ok \in BOOLEAN :
        IF ok
        THEN /\ queued' = Enqueue(queued, render_requeue_index(buf))
             /\ UNCHANGED lost
        ELSE /\ lost' = lost \cup {render_requeue_index(buf)}
             /\ UNCHANGED queued
    /\ held' = NoSlot
    /\ pc' = "loop"
    /\ UNCHANGED prog
    /\ UNCHANGED << dev_fmt, dev_count, dev_size, dev_len, streaming, map_len,
                    map_state, tex_pitch >>
    /\ UNCHANGED << req, queried, copied, unmap_call, unmaps, calls >>

(* ---- quit (camera.c:297-318) and the end of main --------------------- *)

\* ioctl(VIDIOC_STREAMOFF): a failure is reported and quit goes on.
quit_streamoff ==
    /\ pc = "streamoff"
    /\ ioctls' = ioctls \cup {"STREAMOFF"}
    /\ \E ok \in BOOLEAN :
        /\ calls' = Append(calls, IF ok /\ fd >= 0 THEN "STREAMOFF"
                                                   ELSE "STREAMOFF_failed")
        /\ streaming' = IF ok /\ fd >= 0 THEN FALSE ELSE streaming
    /\ i' = 0
    /\ pc' = "munmap"
    /\ UNCHANGED << args, fd, cap, fmt, rb_count, buf, mem, width, height,
                    quit, window, texture, init_ret, exit_code >>
    /\ UNCHANGED << dev_fmt, dev_count, dev_size, dev_len, queued, map_len, map_state,
                    tex_pitch >>
    /\ UNCHANGED << req, queried, lost, held, copied, unmap_call, unmaps >>

\* quit's loop issues munmap for slot k whatever s->mem[k] holds.
quit_unmaps_slot(m) == TRUE

\* The length quit passes to munmap: s->buf.length.
quit_unmap_length(b) == b.length

\* What munmap(addr, len) does to a mapping of length l in state st:
\* nothing when it fails (len = 0, or addr = MAP_FAILED, which is not
\* page-aligned) or when addr is NULL; otherwise it releases the mapping,
\* whole when len covers it, in part when it does not.
Munmap(addr, len, l, st) ==
    IF addr # "PTR" \/ len = 0 \/ st # "mapped" THEN st
    ELSE IF len >= l THEN "unmapped" ELSE "partial"

\* for ( int i=0; i<NUMBUFS; i++ ) munmap( s->mem[i], s->buf.length );
quit_munmap ==
    /\ pc = "munmap"
    /\ IF quit_unmaps_slot(mem[i])
       THEN /\ calls' = Append(calls, "munmap")
            /\ unmap_call' = [unmap_call EXCEPT
                   ![i] = [addr |-> mem[i], len |-> quit_unmap_length(buf),
                           n |-> @.n + 1]]
            /\ map_state' = [map_state EXCEPT
                   ![i] = Munmap(mem[i], quit_unmap_length(buf),
                                 map_len[i], map_state[i])]
            /\ unmaps' = [unmaps EXCEPT
                   ![i] = IF map_state'[i] # map_state[i] THEN @ + 1 ELSE @]
       ELSE UNCHANGED << calls, unmap_call, map_state, unmaps >>
    /\ IF i + 1 < ring_limit(rb_count)
       THEN /\ i' = i + 1
            /\ pc' = "munmap"
       ELSE /\ i' = 0
            /\ pc' = "close"
    /\ UNCHANGED << args, fd, cap, fmt, rb_count, buf, mem, width, height,
                    quit, window, texture, init_ret, exit_code >>
    /\ UNCHANGED << dev_fmt, dev_count, dev_size, dev_len, queued, streaming, map_len,
                    tex_pitch >>
    /\ UNCHANGED << req, ioctls, queried, lost, held, copied >>

\* if (s->fd) { close(s->fd); }
quit_closes(f) == f # 0

\* Close the device descriptor.
quit_close ==
    /\ pc = "close"
    /\ calls' = IF quit_closes(fd) THEN Append(calls, "close") ELSE calls
    /\ pc' = "sdl_quit"
    /\ UNCHANGED prog
    /\ UNCHANGED device
    /\ UNCHANGED << req, ioctls, queried, lost, held, copied, unmap_call, unmaps >>

\* main's return value: EXIT_FAILURE when init returned 0, else EXIT_SUCCESS.
main_exit_code(r) == IF r = 0 THEN EXIT_FAILURE ELSE EXIT_SUCCESS

\* Destroy the texture, renderer and window that exist, SDL_Quit(); quit
\* returns and main returns its exit code.
quit_sdl ==
    /\ pc = "sdl_quit"
    /\ calls' = Append(calls, "SDL_Quit")
    /\ exit_code' = main_exit_code(init_ret)
    /\ pc' = "done"
    /\ UNCHANGED << args, fd, cap, fmt, rb_count, buf, mem, width, height,
                    quit, window, texture, i, init_ret >>
    /\ UNCHANGED device
    /\ UNCHANGED << req, ioctls, queried, lost, held, copied, unmap_call, unmaps >>

Next ==
    \/ init_open
    \/ init_querycap
    \/ init_s_fmt
    \/ init_reqbufs
    \/ init_querybuf
    \/ init_mmap
    \/ init_qbuf
    \/ init_streamon
    \/ init_sdl_init
    \/ init_sdl_window
    \/ init_sdl_texture
    \/ main_loop
    \/ handle_events
    \/ render_dqbuf
    \/ render_lock_copy
    \/ render_requeue
    \/ quit_streamoff
    \/ quit_munmap
    \/ quit_close
    \/ quit_sdl

Spec == Init /\ [][Next]_vars

\* The unmap loop of quit (lines 305-308) run a second time on the state
\* the first run left: quit keeps s->mem[] and s->buf as they are, and the
\* loop starts again at slot 0.
quit_release_again ==
    /\ pc = "close"
    /\ \A s \in Slots : unmap_call[s].n = 1
    /\ i' = 0
    /\ pc' = "munmap"
    /\ UNCHANGED << args, fd, cap, fmt, rb_count, buf, mem, width, height,
                    quit, window, texture, init_ret, exit_code >>
    /\ UNCHANGED device
    /\ UNCHANGED history

NextRelease ==
    \/ Next
    \/ quit_release_again

\* The program with the ring released twice in succession.
SpecRelease == Init /\ [][NextRelease]_vars

(* ---- properties ------------------------------------------------------ *)

\* The buffers the application owns: not queued to the device.
AppOwned == { s \in Slots : queued[s] <= 0 }

\* C1: for every buffer index, over the whole run, successful enqueues and
\* successful dequeues of that index strictly alternate, starting with an
\* enqueue: the enqueues of an index never lead its dequeues by more than
\* one (no second enqueue without a dequeue in between) and never trail
\* them (no second dequeue without an enqueue in between).
C1_StrictAlternation == \A s \in Slots : queued[s] \in {0, 1}

\* A finished run in which one buffer was lost to a failed requeue and
\* another was dequeued, copied and queued again in the last iteration.
C1_Witness ==
    /\ pc = "done"
    /\ lost # {}
    /\ copied # NoSlot /\ copied \notin lost /\ queued[copied] = 1

\* C2: the memcpy of render reads the mapped memory of a buffer only while
\* the application owns it: the index read is the one this iteration's
\* successful dequeue returned, it is not queued to the device, and no
\* requeue of it has been issued yet.
C2_ReadsOnlyOwned ==
    [][ (copied' # copied /\ copied' # NoSlot)
            => (held # NoSlot /\ copied' = held /\ queued[copied'] = 0)
      ]_vars

\* render has just copied the frame of a dequeued buffer while the device
\* still holds another buffer.
C2_Witness ==
    /\ pc = "requeue"
    /\ copied # NoSlot /\ copied = held
    /\ \E s \in Slots : queued[s] = 1

\* C3 as stated: at every boundary between two iterations of the loop no
\* ring buffer is left owned by the application.
C3_NoneLeftAppOwned == (pc = "loop") => (AppOwned = {})

\* C3 as amended: at every boundary between two iterations of the loop a
\* requeue has been issued for the buffer the iteration dequeued, also when
\* the copy was skipped for a stride mismatch, and the only buffers left
\* owned by the application are those whose requeue failed.
C3_OnlyFailedRequeuesLeft ==
    (pc = "loop") => (held = NoSlot /\ AppOwned = lost)

\* An iteration has dequeued a buffer, skipped the copy for a stride
\* mismatch and queued the buffer again.
C3_Witness ==
    /\ pc = "loop"
    /\ "DQBUF" \in ioctls
    /\ buf.length > 0 /\ copied = NoSlot
    /\ queued[buf.index] = 1

\* C4: once the format is set, the recorded width and height are those the
\* device granted.
C4_RecordsGranted ==
    (dev_fmt # ZeroRes) => (width = dev_fmt.width /\ height = dev_fmt.height)

\* C5: once the device has granted its buffers, only the indices below the
\* granted count are queried (and so mapped and queued).
C5_RingIsGrantedCount ==
    (dev_count > 0) => (queried \subseteq 0 .. (dev_count - 1))

\* C6: when the process exits, every mapping init created has been
\* released by exactly one munmap.
C6_EveryMappingUnmappedOnce ==
    (pc = "done") =>
        \A s \in Slots :
            (map_len[s] > 0) => (map_state[s] = "unmapped" /\ unmaps[s] = 1)

\* C7: quit issues munmap only for slots that hold a mapping.
C7_UnmapsOnlyMapped ==
    \A s \in Slots : (unmap_call[s] # NoCall) => (unmap_call[s].addr = "PTR")

\* The calls of a complete teardown, in order.
FullTeardown(first) ==
    << first >> \o [k \in 1 .. NUMBUFS |-> "munmap"] \o << "close", "SDL_Quit" >>

\* C8: quit always issues stream-off, the unmaps of the ring, the close of
\* the device descriptor and the release of the display, in this order,
\* whether stream-off fails or not.
C8_TeardownOrder ==
    (pc = "done") =>
        (calls \in {FullTeardown("STREAMOFF"), FullTeardown("STREAMOFF_failed")})

\* Every step of setup succeeded: the display steps come last.
SetupSucceeded == window = "PTR" /\ texture = "PTR"

\* C9: the exit code is 0 exactly when setup succeeded and the loop ended
\* on a user quit.
C9_ExitCode ==
    (pc = "done") =>
        ((exit_code = EXIT_SUCCESS) <=> (SetupSucceeded /\ quit = 1))

\* C10: a failed dequeue ends the iteration with no copy and no enqueue and
\* leaves the device streaming; the loop then goes on to the next
\* handle_events and dequeue; and the loop is left for quit only at its
\* test, with the quit flag set: never from the dequeue, the stride
\* mismatch or the requeue.
C10_LoopSurvivesFailures ==
    [][ /\ (pc = "dqbuf" /\ held' = NoSlot)
            => (pc' = "loop" /\ queued' = queued /\ copied' = NoSlot
                /\ streaming' = streaming)
        /\ (pc = "loop" /\ quit = 0) => (pc' = "events")
        /\ (pc = "events") => (pc' = "dqbuf")
        /\ (pc = "dqbuf") => (pc' \in {"lock", "loop"})
        /\ (pc = "lock" /\ copied' = NoSlot) => (pc' = "requeue")
        /\ (pc = "requeue") => (pc' = "loop")
        /\ (pc = "loop" /\ pc' # "events") => (quit = 1 /\ pc' = "streamoff")
      ]_vars

\* A dequeue has just failed and the loop is about to go round again.
C10_Witness ==
    /\ pc = "loop"
    /\ "DQBUF" \in ioctls
    /\ buf = ZeroBuf
    /\ quit = 0
    /\ streaming

\* The slots whose mapping a munmap has released, whole or in part.
Released == { s \in Slots : map_state[s] \in {"unmapped", "partial"} }

\* C11 as stated: whenever a ring buffer has been unmapped, the device is
\* not streaming.
C11_UnmappedOnlyWhenStopped == (Released # {}) => ~streaming

\* C11 as amended: a ring buffer is unmapped only after stream-off has been
\* issued, and the device is then not streaming unless that stream-off
\* failed.
C11_UnmappedOnlyAfterStreamoff ==
    (Released # {}) =>
        /\ Len(calls) > 0
        /\ calls[1] \in {"STREAMOFF", "STREAMOFF_failed"}
        /\ streaming => (calls[1] = "STREAMOFF_failed")

\* Stream-off has failed on a streaming device and quit has unmapped a
\* buffer all the same.
C11_Witness ==
    /\ streaming
    /\ calls # << >> /\ calls[1] = "STREAMOFF_failed"
    /\ \E s \in Slots : map_state[s] = "unmapped"

\* The number of times call c occurs in the sequence cs.
Count(cs, c) == Cardinality({ k \in 1 .. Len(cs) : cs[k] = c })

\* C12: when the process exits, the device descriptor has been closed
\* exactly once if open succeeded, whatever descriptor it returned, and no
\* close has been issued if open failed.
C12_ClosedOnceIffOpened ==
    (pc = "done") => (Count(calls, "close") = IF fd >= 0 THEN 1 ELSE 0)

\* C13: with the unmap loop run twice in succession, the second run issues
\* no munmap for a slot whose mapping is already released.
C13_SecondReleaseIsNoOp ==
    \A s \in Slots : (map_state[s] = "unmapped") => (unmap_call[s].n <= 1)

\* The positions of quit and the end of main.
TeardownPcs == {"streamoff", "munmap", "close", "sdl_quit", "done"}

\* The device requests of setup that follow the capability query.
SetupRequests == {"S_FMT", "REQBUFS", "QUERYBUF", "QBUF", "STREAMON"}

\* C14: once the capability query has failed, or has reported capabilities
\* without the video-capture bit or without the streaming bit, setup has
\* failed: none of set-format, buffer request, buffer query, queue and
\* stream-on is ever issued, the program is in teardown, and it exits with
\* a failure code.
C14_UnsupportedDeviceStopsSetup ==
    ("QUERYCAP" \in ioctls /\ ~({"VIDEO_CAPTURE", "STREAMING"} \subseteq cap)) =>
        /\ ioctls \cap SetupRequests = {}
        /\ init_ret = 0
        /\ pc \in TeardownPcs
        /\ (pc = "done") => (exit_code = EXIT_FAILURE)

\* The query succeeded on a device without the streaming bit, and the run
\* has ended.
C14_Witness ==
    /\ pc = "done"
    /\ cap = {"VIDEO_CAPTURE"}
    /\ exit_code = EXIT_FAILURE

\* C15: render copies the frame only when the stride of the texture is
\* exactly width*2 bytes.
C15_CopyOnlyOnExactPitch ==
    (copied # NoSlot /\ texture = "PTR") => (tex_pitch = BytesPerPixel * width)

\* C16: every munmap quit issues for a mapped slot passes the length the
\* slot was mapped with.
C16_UnmapLengthIsMapLength ==
    \A s \in Slots :
        (unmap_call[s].addr = "PTR") => (unmap_call[s].len = map_len[s])

\* C17: whenever render copies a frame, the bytes it reads from the
\* dequeued buffer do not exceed the length of that buffer's mapping.
C17_CopyWithinMapping ==
    (copied # NoSlot) => (render_copy_bytes(width, height) <= map_len[copied])

\* C18: once the quit flag is set, no further iteration starts after the
\* one that is running (the loop never polls events again); quit never
\* starts while render holds a dequeued buffer it has not handed to the
\* requeue; and the program goes on to complete teardown and exit: it does
\* not die before.
C18_QuitLeadsToExit ==
    (quit = 1) =>
        /\ pc # "events"
        /\ (pc \in TeardownPcs) => (held = NoSlot)
        /\ pc # "crashed"

====
